---- MODULE Spec2Model ----
(***************************************************************************)
(* The three token validators of rwa-contract (wrapped_asset,              *)
(* one_to_one_asset, account_aggregate) as a state machine over the ledger *)
(* they guard: the reference-token UTXO holding the CIP-68 metadata        *)
(* record, the seed output, and the outstanding quantity of the user       *)
(* token.  Each action builds one transaction, runs the validator's main   *)
(* entry points on it the way the ledger does (the minting policy when a   *)
(* token of the own policy is minted or burned, the spending validator     *)
(* for each own UTXO that is spent) and applies it when every script       *)
(* passes.                                                                 *)
(***************************************************************************)
EXTENDS Integers, Sequences, FiniteSets, TLC

\* ------------------------------------------------------------------ bounds
\* Largest quantity of the user token the ledger holds.
MaxSupply == 2
\* Largest number of configured oracle keys.
MaxOracles == 2

\* ------------------------------------------------------------------ state
VARIABLES
    variant,      \* which validator is deployed
    ORACLE_KEYS,  \* the configured list of oracle keys (ORACLES in wrapped_asset)
    divRound,     \* how the build's integer division rounds a negative quotient
    scope,        \* the family of transactions this run submits
    record,       \* the metadata held by the reference-token UTXO, or NoRecord
    seedSpent,    \* whether the seed output has been consumed
    circulating,  \* the quantity of the user token in existence on the ledger
    refTokens,    \* the quantity of the reference token in existence on the ledger
    last          \* the transaction just submitted and its verdict, or NoTx

vars == <<variant, ORACLE_KEYS, divRound, scope, record, seedSpent, circulating, refTokens,
         last>>

Variants == {"wrapped_asset", "one_to_one_asset", "account_aggregate"}

NoRecord == [none |-> TRUE]
NoTx == [kind |-> "none"]

\* ------------------------------------------------------- configuration
\* Public-key hashes are numbered; key i is the i-th of a list without repeats.
Keys == 1..MaxOracles

\* The oracle lists a deployment is configured with: the first m keys, for
\* every m up to the bound, and a list that names one key twice.
OracleConfigs ==
    {[i \in 1..m |-> i] : m \in 0..MaxOracles} \cup {<<1, 1>>}

ORACLES == ORACLE_KEYS

QUORUM == (Len(ORACLES) + 1) \div 2

SEED == "SEED"
SEED_ID == SEED

INITIAL_PRICE == 1000

TYPE ==
    CASE variant = "wrapped_asset" -> "WrappedAsset"
      [] variant = "one_to_one_asset" -> "BitcoinNative"
      [] OTHER -> "Private"

VENUE == IF variant = "wrapped_asset" THEN "VENUE" ELSE "-"

POLICY == IF variant = "wrapped_asset" THEN "POLICY" ELSE "-"

ACCOUNT == IF variant = "wrapped_asset" THEN "ACCOUNT" ELSE "#"

TICKER ==
    CASE variant = "wrapped_asset" -> "TICKER"
      [] variant = "one_to_one_asset" -> "BTC"
      [] OTHER -> "USDT"

DECIMALS ==
    CASE variant = "wrapped_asset" -> 0
      [] variant = "one_to_one_asset" -> 8
      [] OTHER -> 6

NAME ==
    CASE variant = "wrapped_asset" -> "-"
      [] variant = "one_to_one_asset" -> "wrapped BTC"
      [] OTHER -> "USDT RWA"

DESCRIPTION ==
    CASE variant = "wrapped_asset" -> "-"
      [] variant = "one_to_one_asset" -> "wrappedBTC operated by PBG"
      [] OTHER -> "USDT RWA operated by PBG"

URL == IF variant = "wrapped_asset" THEN "-" ELSE "https://www.pbg.io"

LOGO == IF variant = "wrapped_asset" THEN "-" ELSE "https://assets.pbg.io/usdt_bridge.png"

\* Token names of the own policy: the CIP-67 label followed by the ticker.  The
\* reference label (000643b0) sorts before the user label (0014df10).
ref_token_name == "ref"
user_token_name == "user"

own_address == "own"

\* ------------------------------------------------------------- the record
\* The fields of struct State of the three validators in one record; a field a
\* variant does not have holds the same filler in every record of that variant.
NoTransferId == ""

IsAggregate == variant = "account_aggregate"
IsWrapped == variant = "wrapped_asset"

\* The metadata a correct initialization writes.
GenesisState ==
    [supply |-> 0,
     supply_after_last_mint |-> 0,
     transfer_id_before_last_mint |-> NoTransferId,
     type |-> TYPE, venue |-> VENUE, policy |-> POLICY, account |-> ACCOUNT,
     ticker |-> TICKER, decimals |-> DECIMALS,
     name |-> NAME, description |-> DESCRIPTION, url |-> URL, logo |-> LOGO,
     quorum |-> IF IsWrapped THEN QUORUM ELSE 0,
     oracles |-> IF IsWrapped THEN ORACLES ELSE <<>>,
     seed |-> IF IsWrapped THEN SEED ELSE "-"]

GenesisMetadata == [state |-> GenesisState, version |-> 1, extra |-> "Unused"]

InvalidDatum == [invalid |-> TRUE]

\* as_strictly[Metadata]: the datum has the structure of Metadata::Cip68, whose
\* extra field is of an enum with the one member Unused.
IsMetadata(datum) ==
    /\ datum # InvalidDatum
    /\ datum # NoRecord
    /\ datum.extra = "Unused"

\* ---------------------------------------------------------- transactions
\* A transaction, as far as the validators read it:
\*   inputs    the set of spent outputs, each [output_id, address, ref, datum]
\*   outputs   the sequence of created outputs, each [address, ref, datum]
\*   minted    the signed quantity of each token name of the own policy
\*   signers   the set of keys that signed
\*   redeemer  [R, Delta, latest_transfer_id] (R alone in the simpler variants)
SeedInput ==
    [output_id |-> SEED, address |-> "wallet", ref |-> 0, user |-> 0, datum |-> NoRecord]

RefInput ==
    [output_id |-> "ref-utxo", address |-> own_address, ref |-> 1, user |-> 0,
     datum |-> record]

\* An output at the own address that holds no token of the own policy; anyone
\* can create one by paying to the address.
GarbageInput ==
    [output_id |-> "garbage", address |-> own_address, ref |-> 0, user |-> 0,
     datum |-> NoRecord]

\* An output at the own address that holds the user token alone; a holder of
\* the token can create one by paying it to the address.
UserInput ==
    [output_id |-> "user-utxo", address |-> own_address, ref |-> 0, user |-> 1,
     datum |-> NoRecord]

\* tx.minted.get_policy(own_mph): the minted token names of the own policy
\* with their quantities, in the ledger's order of token names.
MintedTokens(tx) ==
    (IF tx.minted.ref # 0 THEN <<(<<ref_token_name, tx.minted.ref>>)>> ELSE <<>>)
    \o (IF tx.minted.user # 0 THEN <<(<<user_token_name, tx.minted.user>>)>> ELSE <<>>)

\* tx.minted.get_safe(user_token_asset_class)
MintedUser(tx) == tx.minted.user

\* The search that does not look at the address of an output.
RECURSIVE FindFrom_any_address(_, _, _)
FindFrom_any_address(outputs, exact, i) ==
    IF i > Len(outputs) THEN 0
    ELSE IF (IF exact THEN outputs[i].ref = 1 ELSE outputs[i].ref > 0)
         THEN i
         ELSE FindFrom_any_address(outputs, exact, i + 1)

\* tx.outputs.find(pred): the index of the first output at the own address
\* whose quantity of the reference token satisfies the predicate, 0 for none.
RECURSIVE FindFrom(_, _, _)
FindFrom(outputs, exact, i) ==
    IF i > Len(outputs) THEN 0
    ELSE IF /\ outputs[i].address = own_address
            /\ (IF exact THEN outputs[i].ref = 1 ELSE outputs[i].ref > 0)
         THEN i
         ELSE FindFrom(outputs, exact, i + 1)

FindRefOutput(tx, exact) == FindFrom(tx.outputs, exact, 1)

\* The seed taken as spent by every transaction.
seed_assumed_spent(tx) == TRUE

\* tx.inputs.any(input.output_id == SEED)
SeedIsSpent(tx) == \E input \in tx.inputs : input.output_id = SEED

\* tx.inputs.any(input.address == own_address && ref token quantity > 0)
RefIsSpent(tx) ==
    \E input \in tx.inputs : input.address = own_address /\ input.ref > 0

\* The first failed assertion of a list of <<condition, message>>, "ok" for none.
RECURSIVE FirstFailure(_, _)
FirstFailure(asserts, i) ==
    IF i > Len(asserts) THEN "ok"
    ELSE IF ~asserts[i][1] THEN asserts[i][2]
    ELSE FirstFailure(asserts, i + 1)

\* ORACLES.fold((n_signers, key) -> n_signers + tx.is_signed_by(key).to_int(), 0)
RECURSIVE n_signers(_, _, _)
n_signers(keys, signers, i) ==
    IF i > Len(keys) THEN 0
    ELSE (IF keys[i] \in signers THEN 1 ELSE 0) + n_signers(keys, signers, i + 1)

\* ------------------------------------------------------- wrapped_asset
wrapped_asset_validate_initialization(tx) ==
    IF ~SeedIsSpent(tx) THEN "seed not spent"
    ELSE IF FindRefOutput(tx, TRUE) = 0 THEN "output not found"
    ELSE LET metadata == tx.outputs[FindRefOutput(tx, TRUE)].datum IN
         IF ~IsMetadata(metadata) THEN "invalid datum"
         ELSE LET state == metadata.state IN
              FirstFailure(<<
                  <<state.supply = 0, "supply not initialized at 0">>,
                  <<state.type = TYPE, "unexpected type">>,
                  <<state.venue = VENUE, "unexpected venue">>,
                  <<state.policy = POLICY, "unexpected policy">>,
                  <<state.account = ACCOUNT, "unexpected account">>,
                  <<state.ticker = TICKER, "unexpected ticker">>,
                  <<state.decimals = DECIMALS, "unexpected decimals">>,
                  <<state.quorum = QUORUM, "unexpected quorum">>,
                  <<state.seed = SEED, "unexpected seed">>,
                  <<metadata.version = 1, "unexpected metadata version">>,
                  <<metadata.extra = "Unused", "unexpected metadata extra values">>
              >>, 1)

\* The quorum check of wrapped_asset made as the two other variants make it.
wrapped_asset_signed_by_majority(tx) ==
    n_signers(ORACLES, tx.signers, 1) > (Len(ORACLES) \div 2)

wrapped_asset_signed_by_quorum(tx) ==
    n_signers(ORACLES, tx.signers, 1) >= QUORUM

\* The checks of a mint with the cap on the new supply forgotten.
wrapped_asset_mint_asserts_uncapped(tx, N1) ==
    <<
        <<wrapped_asset_signed_by_quorum(tx), "not signed by simple quorum of oracles">>
    >>

wrapped_asset_mint_asserts(tx, N1) ==
    <<
        <<N1 <= tx.redeemer.R, "too many tokens minted">>,
        <<wrapped_asset_signed_by_quorum(tx), "not signed by simple quorum of oracles">>
    >>

wrapped_asset_constant_asserts(state0, state1) ==
    <<
        <<state1.type = TYPE, "type changed">>,
        <<state1.venue = state0.venue, "venue changed">>,
        <<state1.policy = state0.policy, "policy changed">>,
        <<state1.account = state0.account, "account changed">>,
        <<state1.ticker = state0.ticker, "ticker changed">>,
        <<state1.decimals = state0.decimals, "decimals changed">>,
        <<state1.quorum = QUORUM, "quorum changed">>,
        <<state1.oracles = ORACLES, "oracles changed">>,
        <<state1.seed = SEED, "seed changed">>
    >>

\* The supply check that lets the supply fall by more than was burned.
wrapped_asset_supply_assert_at_most(N0, N1, n) ==
    <<(N1 - N0) <= n, "current token supply not updated correctly">>

wrapped_asset_supply_assert(N0, N1, n) ==
    <<(N1 - N0) = n, "current token supply not updated correctly">>

wrapped_asset_validate_state_change(tx, input) ==
    LET state0 == input.datum.state IN
    IF FindRefOutput(tx, FALSE) = 0 THEN "output not found"
    ELSE LET datum1 == tx.outputs[FindRefOutput(tx, FALSE)].datum IN
         IF ~IsMetadata(datum1) THEN "invalid datum"
         ELSE LET state1 == datum1.state
                  n == MintedUser(tx)
                  N0 == state0.supply
                  N1 == state1.supply
              IN  FirstFailure(
                      wrapped_asset_constant_asserts(state0, state1)
                      \o <<wrapped_asset_supply_assert(N0, N1, n)>>
                      \o (IF n > 0 THEN wrapped_asset_mint_asserts(tx, N1) ELSE <<>>),
                      1)

\* ---------------------------------------------------- one_to_one_asset
\* The initialization that does not ask for the seed.
one_to_one_asset_validate_initialization_unseeded(tx) ==
    IF FindRefOutput(tx, TRUE) = 0 THEN "output not found"
    ELSE LET metadata == tx.outputs[FindRefOutput(tx, TRUE)].datum IN
         IF ~IsMetadata(metadata) THEN "invalid datum"
         ELSE IF /\ metadata.state.supply = 0
                 /\ metadata.state.type = TYPE
                 /\ metadata.state.account = ACCOUNT
                 /\ metadata.state.name = NAME
                 /\ metadata.state.description = DESCRIPTION
                 /\ metadata.state.decimals = DECIMALS
                 /\ metadata.state.ticker = TICKER
                 /\ metadata.state.url = URL
                 /\ metadata.state.logo = LOGO
                 /\ metadata.version = 1
                 /\ metadata.extra = "Unused"
              THEN "ok"
              ELSE "metadata not initialized correctly"

one_to_one_asset_validate_initialization(tx) ==
    IF ~SeedIsSpent(tx) THEN "seed UTXO not spent"
    ELSE IF FindRefOutput(tx, TRUE) = 0 THEN "output not found"
    ELSE LET metadata == tx.outputs[FindRefOutput(tx, TRUE)].datum IN
         IF ~IsMetadata(metadata) THEN "invalid datum"
         ELSE IF /\ metadata.state.supply = 0
                 /\ metadata.state.type = TYPE
                 /\ metadata.state.account = ACCOUNT
                 /\ metadata.state.name = NAME
                 /\ metadata.state.description = DESCRIPTION
                 /\ metadata.state.decimals = DECIMALS
                 /\ metadata.state.ticker = TICKER
                 /\ metadata.state.url = URL
                 /\ metadata.state.logo = LOGO
                 /\ metadata.version = 1
                 /\ metadata.extra = "Unused"
              THEN "ok"
              ELSE "metadata not initialized correctly"

one_to_one_asset_signed_by_quorum(tx) ==
    n_signers(ORACLE_KEYS, tx.signers, 1) > (Len(ORACLE_KEYS) \div 2)

\* The checks of a mint gated by the quorum alone.
one_to_one_asset_mint_asserts_quorum_only(tx, N1) ==
    <<
        <<one_to_one_asset_signed_by_quorum(tx), "not signed by simple quorum of oracles">>
    >>

one_to_one_asset_mint_asserts(tx, N1) ==
    <<
        <<N1 <= tx.redeemer.R, "too many tokens minted">>,
        <<one_to_one_asset_signed_by_quorum(tx), "not signed by simple quorum of oracles">>
    >>


\* The constant-field checks with the ticker check forgotten.
one_to_one_asset_constant_asserts_no_ticker(state0, state1) ==
    <<
        <<state1.type = state0.type, "type not constant">>,
        <<state1.account = state0.account, "account not constant">>,
        <<state1.decimals = state0.decimals, "metadata decimals not constant">>
    >>

one_to_one_asset_constant_asserts(state0, state1) ==
    <<
        <<state1.type = state0.type, "type not constant">>,
        <<state1.account = state0.account, "account not constant">>,
        <<state1.ticker = state0.ticker, "metadata ticker not constant">>,
        <<state1.decimals = state0.decimals, "metadata decimals not constant">>
    >>

one_to_one_asset_supply_assert(N0, N1, n) ==
    <<(N1 - N0) = n, "current token supply not updated correctly">>

one_to_one_asset_validate_state_change(tx, input) ==
    LET state0 == input.datum.state IN
    IF FindRefOutput(tx, FALSE) = 0 THEN "output not found"
    ELSE LET datum1 == tx.outputs[FindRefOutput(tx, FALSE)].datum IN
         IF ~IsMetadata(datum1) THEN "invalid datum"
         ELSE LET state1 == datum1.state
                  n == MintedUser(tx)
                  N0 == state0.supply
                  N1 == state1.supply
              IN  FirstFailure(
                      one_to_one_asset_constant_asserts(state0, state1)
                      \o <<one_to_one_asset_supply_assert(N0, N1, n)>>
                      \o (IF n > 0 THEN one_to_one_asset_mint_asserts(tx, N1) ELSE <<>>),
                      1)

\* --------------------------------------------------- account_aggregate
\* A Real is a fixed-point number of 6 decimal places, held as the integer
\* count of millionths.  Real - Real, Real < Real and Int * Real act on the
\* counts; Real / Int divides the count by the integer.  The source does not
\* fix how the build's integer division rounds a negative quotient: both
\* roundings (towards minus infinity and towards zero) are modelled.
DivRoundings == {"floor", "trunc"}

RealDivInt(a, b) ==
    IF a >= 0 \/ divRound = "floor"
    THEN a \div b
    ELSE -((-a) \div b)

account_aggregate_validate_initialization(tx) ==
    IF ~SeedIsSpent(tx) THEN "seed UTXO not spent"
    ELSE IF FindRefOutput(tx, TRUE) = 0 THEN "output not found"
    ELSE LET metadata == tx.outputs[FindRefOutput(tx, TRUE)].datum IN
         IF ~IsMetadata(metadata) THEN "invalid datum"
         ELSE IF /\ metadata.state.supply = 0
                 /\ metadata.state.supply_after_last_mint = 0
                 /\ metadata.state.transfer_id_before_last_mint = NoTransferId
                 /\ metadata.state.type = TYPE
                 /\ metadata.state.account = ACCOUNT
                 /\ metadata.state.name = NAME
                 /\ metadata.state.description = DESCRIPTION
                 /\ metadata.state.decimals = DECIMALS
                 /\ metadata.state.ticker = TICKER
                 /\ metadata.state.url = URL
                 /\ metadata.state.logo = LOGO
                 /\ metadata.version = 1
                 /\ metadata.extra = "Unused"
              THEN "ok"
              ELSE "metadata not initialized correctly"


\* The quorum check with >= for >.
account_aggregate_signed_by_half(tx) ==
    n_signers(ORACLE_KEYS, tx.signers, 1) >= (Len(ORACLE_KEYS) \div 2)

account_aggregate_signed_by_quorum(tx) ==
    n_signers(ORACLE_KEYS, tx.signers, 1) > (Len(ORACLE_KEYS) \div 2)


\* The price with the comparison turned round: the larger candidate.
calc_token_price_larger(R, Delta, current_supply, supply_after_last_mint) ==
    IF current_supply = 0 \/ supply_after_last_mint = 0
    THEN INITIAL_PRICE
    ELSE LET p_last == RealDivInt(R - Delta, supply_after_last_mint)
             p_curr == RealDivInt(R, current_supply)
         IN  IF p_last > p_curr THEN p_last ELSE p_curr

\* The price with the reserves change added instead of subtracted.
calc_token_price_added(R, Delta, current_supply, supply_after_last_mint) ==
    IF current_supply = 0 \/ supply_after_last_mint = 0
    THEN INITIAL_PRICE
    ELSE LET p_last == RealDivInt(R + Delta, supply_after_last_mint)
             p_curr == RealDivInt(R, current_supply)
         IN  IF p_last < p_curr THEN p_last ELSE p_curr

calc_token_price(R, Delta, current_supply, supply_after_last_mint) ==
    IF current_supply = 0 \/ supply_after_last_mint = 0
    THEN INITIAL_PRICE
    ELSE LET p_last == RealDivInt(R - Delta, supply_after_last_mint)
             p_curr == RealDivInt(R, current_supply)
         IN  IF p_last < p_curr THEN p_last ELSE p_curr

account_aggregate_constant_asserts(state0, state1) ==
    <<
        <<state1.type = state0.type, "type not constant">>,
        <<state1.account = state0.account, "account not constant">>,
        <<state1.ticker = state0.ticker, "metadata ticker not constant">>,
        <<state1.decimals = state0.decimals, "metadata decimals not constant">>
    >>


\* The supply check with the comparison loosened.
account_aggregate_supply_assert_loose(N0, N1, n) ==
    <<(N1 - N0) >= n, "current token supply not updated correctly">>

account_aggregate_supply_assert(N0, N1, n) ==
    <<(N1 - N0) = n, "current token supply not updated correctly">>


\* The price bound without the factor N1.
account_aggregate_price_assert_unit(N1, p, R) ==
    <<p <= R, "too many tokens minted">>

\* The price bound with < for <=.
account_aggregate_price_assert_strict(N1, p, R) ==
    <<N1 * p < R, "too many tokens minted">>

account_aggregate_price_assert(N1, p, R) ==
    <<N1 * p <= R, "too many tokens minted">>


\* The checks of a mint with the transfer id compared to the prior record's,
\* as in a burn, instead of the redeemer's.
account_aggregate_mint_asserts_stale_id(tx, state0, state1) ==
    LET R == tx.redeemer.R
        Delta == tx.redeemer.Delta
        N0 == state0.supply
        N1 == state1.supply
        p == calc_token_price(R, Delta, N0, state0.supply_after_last_mint)
    IN  <<
            <<N1 * p <= R, "too many tokens minted">>,
            <<state1.transfer_id_before_last_mint = state0.transfer_id_before_last_mint,
              "transfer_id_before_last_mint not updated correctly">>,
            <<state1.supply_after_last_mint = N1,
              "supply_after_last_mint not updated correctly">>,
            <<account_aggregate_signed_by_quorum(tx),
              "not signed by simple quorum of oracles">>
        >>

\* The checks of a mint with the snapshot taken of the supply before it.
account_aggregate_mint_asserts_prior_snapshot(tx, state0, state1) ==
    LET R == tx.redeemer.R
        Delta == tx.redeemer.Delta
        latest_transfer_id == tx.redeemer.latest_transfer_id
        N0 == state0.supply
        N1 == state1.supply
        p == calc_token_price(R, Delta, N0, state0.supply_after_last_mint)
    IN  <<
            account_aggregate_price_assert(N1, p, R),
            <<state1.transfer_id_before_last_mint = latest_transfer_id,
              "transfer_id_before_last_mint not updated correctly">>,
            <<state1.supply_after_last_mint = N0,
              "supply_after_last_mint not updated correctly">>,
            <<account_aggregate_signed_by_quorum(tx),
              "not signed by simple quorum of oracles">>
        >>

\* The checks of a mint without the one on supply_after_last_mint.
account_aggregate_mint_asserts_no_snapshot(tx, state0, state1) ==
    LET R == tx.redeemer.R
        Delta == tx.redeemer.Delta
        latest_transfer_id == tx.redeemer.latest_transfer_id
        N0 == state0.supply
        N1 == state1.supply
        p == calc_token_price(R, Delta, N0, state0.supply_after_last_mint)
    IN  <<
            account_aggregate_price_assert(N1, p, R),
            <<state1.transfer_id_before_last_mint = latest_transfer_id,
              "transfer_id_before_last_mint not updated correctly">>,
            <<account_aggregate_signed_by_quorum(tx),
              "not signed by simple quorum of oracles">>
        >>

\* The checks of a mint with the quorum asked for first.
account_aggregate_mint_asserts_quorum_first(tx, state0, state1) ==
    LET R == tx.redeemer.R
        Delta == tx.redeemer.Delta
        latest_transfer_id == tx.redeemer.latest_transfer_id
        N0 == state0.supply
        N1 == state1.supply
        p == calc_token_price(R, Delta, N0, state0.supply_after_last_mint)
    IN  <<
            <<account_aggregate_signed_by_quorum(tx),
              "not signed by simple quorum of oracles">>,
            account_aggregate_price_assert(N1, p, R),
            <<state1.transfer_id_before_last_mint = latest_transfer_id,
              "transfer_id_before_last_mint not updated correctly">>,
            <<state1.supply_after_last_mint = N1,
              "supply_after_last_mint not updated correctly">>
        >>

account_aggregate_mint_asserts(tx, state0, state1) ==
    LET R == tx.redeemer.R
        Delta == tx.redeemer.Delta
        latest_transfer_id == tx.redeemer.latest_transfer_id
        N0 == state0.supply
        N1 == state1.supply
        p == calc_token_price(R, Delta, N0, state0.supply_after_last_mint)
    IN  <<
            account_aggregate_price_assert(N1, p, R),
            <<state1.transfer_id_before_last_mint = latest_transfer_id,
              "transfer_id_before_last_mint not updated correctly">>,
            <<state1.supply_after_last_mint = N1,
              "supply_after_last_mint not updated correctly">>,
            <<account_aggregate_signed_by_quorum(tx),
              "not signed by simple quorum of oracles">>
        >>

\* The burn branch that holds only the transfer id.
account_aggregate_burn_asserts_id_only(state0, state1) ==
    <<
        <<state1.transfer_id_before_last_mint = state0.transfer_id_before_last_mint,
          "transfer_id_before_last_mint can't change during burn">>
    >>

\* The burn branch that holds only the snapshot of the supply.
account_aggregate_burn_asserts_snapshot_only(state0, state1) ==
    <<
        <<state1.supply_after_last_mint = state0.supply_after_last_mint,
          "supply_after_last_mint can't change during burn">>
    >>

account_aggregate_burn_asserts(state0, state1) ==
    <<
        <<state1.supply_after_last_mint = state0.supply_after_last_mint,
          "supply_after_last_mint can't change during burn">>,
        <<state1.transfer_id_before_last_mint = state0.transfer_id_before_last_mint,
          "transfer_id_before_last_mint can't change during burn">>
    >>

account_aggregate_validate_state_change(tx, input) ==
    LET state0 == input.datum.state IN
    IF FindRefOutput(tx, FALSE) = 0 THEN "output not found"
    ELSE LET datum1 == tx.outputs[FindRefOutput(tx, FALSE)].datum IN
         IF ~IsMetadata(datum1) THEN "invalid datum"
         ELSE LET state1 == datum1.state
                  n == MintedUser(tx)
                  N0 == state0.supply
                  N1 == state1.supply
              IN  FirstFailure(
                      account_aggregate_constant_asserts(state0, state1)
                      \o <<account_aggregate_supply_assert(N0, N1, n)>>
                      \o (IF n > 0
                          THEN account_aggregate_mint_asserts(tx, state0, state1)
                          ELSE account_aggregate_burn_asserts(state0, state1)),
                      1)

\* ------------------------------------------------------------------ main
validate_initialization(tx) ==
    CASE variant = "wrapped_asset" -> wrapped_asset_validate_initialization(tx)
      [] variant = "one_to_one_asset" -> one_to_one_asset_validate_initialization(tx)
      [] OTHER -> account_aggregate_validate_initialization(tx)

validate_state_change(tx, input) ==
    CASE variant = "wrapped_asset" -> wrapped_asset_validate_state_change(tx, input)
      [] variant = "one_to_one_asset" -> one_to_one_asset_validate_state_change(tx, input)
      [] OTHER -> account_aggregate_validate_state_change(tx, input)

\* The own-policy token names an own UTXO holds, in the ledger's order.
OwnTokens(utxo) ==
    (IF utxo.ref > 0 THEN <<ref_token_name>> ELSE <<>>)
    \o (IF utxo.user > 0 THEN <<user_token_name>> ELSE <<>>)

\* Value::get_policy fails with "policy not found" on a value that has no
\* entry for the policy (get_policy_safe is the method that returns an empty
\* map then), and a value on the ledger has no entry for a policy of which
\* it holds no token.
HoldsOwnPolicy(utxo) == OwnTokens(utxo) # <<>>

\* main, Spending branch: the validator run for one spent UTXO of the own address.
\* main, Spending branch, letting every first token name through.
main_Spending_any_name(tx, utxo) ==
    IF ~HoldsOwnPolicy(utxo) THEN "policy not found"
    ELSE LET tokens == OwnTokens(utxo) IN
         IF tokens = <<>> THEN "ok"
         ELSE IF Head(tokens) = ref_token_name
              THEN validate_state_change(tx, utxo)
              ELSE "ok"

main_Spending(tx, utxo) ==
    IF ~HoldsOwnPolicy(utxo) THEN "policy not found"
    ELSE LET tokens == OwnTokens(utxo) IN
         IF tokens = <<>> THEN "ok"
         ELSE IF Head(tokens) = ref_token_name
              THEN validate_state_change(tx, utxo)
              ELSE "unexpected token name"


\* The minting policy without its check that the reference token is spent.
ref_token_spent_unchecked(tx) == TRUE

\* "ref token not spent": the user token is minted or burned only by a
\* transaction that spends the reference-token UTXO.
ref_token_spent_assert(tx) == RefIsSpent(tx)

\* The minting policy that looks at the first minted token name only.
main_Other_first_kind(tx) ==
    LET tokens == MintedTokens(tx)
        name == Head(tokens)[1]
        qty == Head(tokens)[2]
    IN  IF name = user_token_name /\ qty # 0
        THEN (IF ref_token_spent_assert(tx) THEN "ok" ELSE "ref token not spent")
        ELSE IF qty = 1 /\ name = ref_token_name
             THEN validate_initialization(tx)
        ELSE "invalid minted tokens"

\* main, Other branch: the minting policy, run when the transaction mints or
\* burns a token of the own policy.
main_Other(tx) ==
    LET tokens == MintedTokens(tx)
        name == Head(tokens)[1]
        qty == Head(tokens)[2]
    IN  IF Tail(tokens) # <<>> THEN "only one token kind can be minted or burned"
        ELSE IF name = user_token_name /\ qty # 0
             THEN (IF ref_token_spent_assert(tx) THEN "ok" ELSE "ref token not spent")
        ELSE IF qty = 1 /\ name = ref_token_name
             THEN validate_initialization(tx)
        ELSE "invalid minted tokens"

\* The ledger runs the minting policy when the own policy is in tx.minted and
\* the spending validator once for every spent UTXO locked by the validator;
\* the transaction is valid when all of them pass.
Verdict(tx) ==
    LET policy == IF MintedTokens(tx) # <<>> THEN main_Other(tx) ELSE "ok"
        failing == {input \in tx.inputs :
                        input.address = own_address /\ main_Spending(tx, input) # "ok"}
    IN  IF policy # "ok" THEN policy
        ELSE IF failing # {} THEN main_Spending(tx, CHOOSE input \in failing : TRUE)
        ELSE "ok"

\* ------------------------------------------------- submitted transactions
\* The transactions a run submits are drawn from bounded sets.  A run is of
\* one scope, which says which parts of a state change vary freely:
\*   "supply"    the minted quantity, the new supply and tracking fields and
\*               the redeemer; signed by no oracle or by every key
\*   "quorum"    the minted quantity, the new supply and the set of signers
\*   "metadata"  one field of the metadata edited at a time
\*   "structure" where the transaction puts the reference token, and with
\*               what datum; the spending of other outputs of the own address
\*   "concurrent" two transactions built on the same reference-token UTXO
Scopes == {"supply", "quorum", "metadata", "structure", "concurrent"}

TransferIds == {NoTransferId, "a"}

Reserves == IF IsAggregate THEN {0, INITIAL_PRICE, 3 * INITIAL_PRICE} ELSE 0..MaxSupply

ReserveChanges == IF IsAggregate THEN {0, INITIAL_PRICE, 4 * INITIAL_PRICE + 1} ELSE {0}

Redeemers ==
    [R : Reserves, Delta : ReserveChanges,
     latest_transfer_id : IF IsAggregate THEN TransferIds ELSE {NoTransferId}]

\* A redeemer that allows every mint within the bounds.
AmpleRedeemer ==
    [R |-> IF IsAggregate THEN MaxSupply * INITIAL_PRICE ELSE MaxSupply, Delta |-> 0,
     latest_transfer_id |-> IF IsAggregate THEN "a" ELSE NoTransferId]

SignerSets == IF scope = "quorum" THEN SUBSET Keys ELSE {{}, Keys}

IdentityFields ==
    IF IsWrapped
    THEN {"type", "venue", "policy", "account", "ticker", "decimals",
          "quorum", "oracles", "seed"}
    ELSE {"type", "account", "ticker", "decimals"}

DisplayFields == {"name", "description", "url", "logo"}

TrackingFields ==
    IF IsAggregate
    THEN {"supply_after_last_mint", "transfer_id_before_last_mint"}
    ELSE {}

\* The fields of Metadata::Cip68 beside the state.
EnvelopeFields == {"version", "extra"}

\* The value a field is configured with, and one other value of its type.
Configured(f) ==
    CASE f = "version" -> 1
      [] f = "extra" -> "Unused"
      [] OTHER -> GenesisState[f]

Alternative(f) ==
    CASE f = "version" -> 2
      [] f \in {"supply", "supply_after_last_mint"} -> 1
      [] f = "transfer_id_before_last_mint" -> "a"
      [] f = "decimals" -> DECIMALS + 1
      [] f = "quorum" -> QUORUM + 1
      [] f = "oracles" -> ORACLES \o <<1>>
      [] OTHER -> "other"

Edited(metadata, f, v) ==
    IF f \in EnvelopeFields
    THEN [metadata EXCEPT ![f] = v]
    ELSE [metadata EXCEPT !.state[f] = v]

\* The metadata with no field or one field set to one of its two values.
Edits(metadata, fields) ==
    {metadata} \cup
    UNION {{Edited(metadata, f, Configured(f)), Edited(metadata, f, Alternative(f))} :
              f \in fields}

WithSupply(metadata, s, l, t) ==
    [metadata EXCEPT !.state.supply = s,
                     !.state.supply_after_last_mint = l,
                     !.state.transfer_id_before_last_mint = t]

\* The tracking fields a correct transaction writes (I4).
TrackedAs(metadata, n, s, redeemer) ==
    IF IsAggregate /\ n > 0
    THEN WithSupply(metadata, s, s, redeemer.latest_transfer_id)
    ELSE [metadata EXCEPT !.state.supply = s]

Quantities == (0 - MaxSupply)..MaxSupply

Supplies == 0..MaxSupply

\* The supplies a datum can claim: an Int, which may be negative.
ClaimedSupplies == Supplies \cup {0 - 1}

\* The candidates of a state change: <<minted quantity, redeemer, new datum>>.
StateChangeCandidates ==
    CASE scope = "supply" ->
            {<<n, r, WithSupply(record, s, l, t)>> :
                n \in Quantities, r \in Redeemers, s \in Supplies,
                l \in (IF IsAggregate THEN Supplies ELSE {0}),
                t \in (IF IsAggregate THEN TransferIds ELSE {NoTransferId})}
      [] scope = "quorum" ->
            {<<n, AmpleRedeemer, TrackedAs(record, n, s, AmpleRedeemer)>> :
                n \in Quantities, s \in ClaimedSupplies}
      [] scope \in {"structure", "concurrent"} ->
            {<<n, AmpleRedeemer,
               TrackedAs(record, n, record.state.supply + n, AmpleRedeemer)>> :
                n \in {n \in {-1, 0, 1} : record.state.supply + n \in Supplies}}
      [] OTHER ->
            UNION {{<<n, AmpleRedeemer, d>> :
                        d \in Edits(TrackedAs(record, n, record.state.supply + n,
                                              AmpleRedeemer),
                                    IdentityFields \cup DisplayFields \cup EnvelopeFields)} :
                   n \in {n \in {-1, 0, 1} : record.state.supply + n \in Supplies}}

\* The ledger's own rules: tokens that do not exist cannot be burned (and the
\* model holds at most MaxSupply of them).
LedgerAllows(n) == circulating + n \in Supplies

Output(address, ref, datum) == [address |-> address, ref |-> ref, datum |-> datum]

\* The outputs of a state change that writes the datum: the reference token
\* in one output of the own address or, in scope "structure", anywhere.
OutputShapes(datum) ==
    IF scope = "structure"
    THEN {<<Output(own_address, 1, datum)>>,
          <<Output("wallet", 1, datum)>>,
          <<Output(own_address, 1, InvalidDatum)>>,
          <<Output("wallet", 0, datum), Output(own_address, 1, datum)>>,
          <<Output(own_address, 0, datum), Output("wallet", 1, datum)>>}
    ELSE {<<Output(own_address, 1, datum)>>}

Tx(inputs, outputs, mintedRef, mintedUser, signers, redeemer) ==
    [inputs |-> inputs, outputs |-> outputs,
     minted |-> [ref |-> mintedRef, user |-> mintedUser],
     signers |-> signers, redeemer |-> redeemer]

\* The outputs of the transaction that hold the reference token at the own
\* address, as the ledger has them.
OwnRefOutputs(tx) ==
    {i \in 1..Len(tx.outputs) :
        tx.outputs[i].address = own_address /\ tx.outputs[i].ref > 0}

\* The datum of the reference-token UTXO after the transaction.
RecordAfter(tx) ==
    IF OwnRefOutputs(tx) # {}
    THEN tx.outputs[CHOOSE i \in OwnRefOutputs(tx) : TRUE].datum
    ELSE IF RefInput \in tx.inputs THEN NoRecord
    ELSE record

\* A submitted transaction is applied when every script passes and is
\* dropped otherwise; either way it is recorded, with the record it met.
SubmitAs(kind, tx, verdict) ==
    /\ last' = [kind |-> kind, tx |-> tx, verdict |-> verdict, prior |-> record]
    /\ IF verdict = "ok"
       THEN /\ record' = RecordAfter(tx)
            /\ seedSpent' = (seedSpent \/ SeedInput \in tx.inputs)
            /\ circulating' = circulating + tx.minted.user
            /\ refTokens' = refTokens + tx.minted.ref
       ELSE UNCHANGED <<record, seedSpent, circulating, refTokens>>
    /\ UNCHANGED <<variant, ORACLE_KEYS, divRound, scope>>

Submit(kind, tx) == SubmitAs(kind, tx, Verdict(tx))

\* A ledger that lets an output be spent again after it was spent.
spent_outputs_kept(first) == FALSE

\* The ledger spends an output once: the reference-token UTXO that the
\* transaction `first` spent is gone when `first` was applied.
ConsumedBy(first) == first.verdict = "ok"

\* ---------------------------------------------------------------- actions
Init ==
    /\ variant \in Variants
    /\ ORACLE_KEYS \in OracleConfigs
    /\ divRound \in (IF variant = "account_aggregate" THEN DivRoundings ELSE {"floor"})
    /\ scope \in Scopes
    /\ record = NoRecord
    /\ seedSpent = FALSE
    /\ circulating = 0
    /\ refTokens = 0
    /\ last = NoTx

\* A transaction that mints the reference token: the initialization.
Initialize ==
    /\ last = NoTx
    /\ record = NoRecord
    /\ \E seed \in (IF seedSpent THEN {FALSE} ELSE {TRUE, FALSE}),
          address \in {own_address, "wallet"},
          datum \in Edits(GenesisMetadata,
                          {"supply"} \cup EnvelopeFields \cup TrackingFields
                          \cup IdentityFields \cup DisplayFields) \cup {InvalidDatum},
          qty \in {1, 2},
          user \in {0, 1},
          signers \in {{}, Keys} :
        Submit("Initialize",
               Tx(IF seed THEN {SeedInput} ELSE {},
                  <<Output(address, qty, datum)>>,
                  qty, user, signers, AmpleRedeemer))

\* A transaction that spends the reference-token UTXO and puts the reference
\* token, with a new datum, in one output.
StateChange ==
    /\ last = NoTx
    /\ record # NoRecord
    /\ \E c \in StateChangeCandidates, signers \in SignerSets :
        \E outputs \in OutputShapes(c[3]) :
            /\ LedgerAllows(c[1])
            /\ Submit("StateChange", Tx({RefInput}, outputs, 0, c[1], signers, c[2]))

\* A transaction that mints or burns the user token and leaves the
\* reference-token UTXO alone.
MintOnly ==
    /\ last = NoTx
    /\ \E n \in Quantities \ {0}, signers \in {{}, Keys} :
        /\ LedgerAllows(n)
        /\ Submit("MintOnly", Tx({}, <<>>, 0, n, signers, AmpleRedeemer))

\* A transaction that mints or burns the reference token once the record
\* exists; what it holds of the reference token goes to the own address with
\* the genesis datum.  The ledger lets it burn only a token that it spends.
MintReference ==
    /\ last = NoTx
    /\ record # NoRecord
    /\ \E qty \in {-1, 1, 2}, spend \in BOOLEAN, signers \in {{}, Keys},
          seed \in (IF seedSpent THEN {FALSE} ELSE {TRUE, FALSE}),
          user \in {-1, 0, 1} :
        /\ qty < 0 => spend
        /\ LedgerAllows(user)
        /\ LET held == qty + (IF spend THEN 1 ELSE 0) IN
           Submit("MintReference",
                  Tx((IF spend THEN {RefInput} ELSE {})
                        \cup (IF seed THEN {SeedInput} ELSE {}),
                     IF held > 0
                     THEN <<Output(own_address, held, GenesisMetadata)>>
                     ELSE <<>>,
                     qty, user, signers, AmpleRedeemer))

\* A transaction that consumes the seed output and runs none of the scripts.
SpendSeed ==
    /\ last = NoTx
    /\ ~seedSpent
    /\ Submit("SpendSeed", Tx({SeedInput}, <<>>, 0, 0, {}, AmpleRedeemer))

\* A transaction that spends an output of the own address holding no token
\* of the own policy, whatever the redeemer, the signers and the outputs.
SpendGarbage ==
    /\ last = NoTx
    /\ scope = "structure"
    /\ \E redeemer \in Redeemers, signers \in {{}, Keys},
          outputs \in {<<>>, <<Output(own_address, 0, GenesisMetadata)>>} :
        Submit("SpendGarbage", Tx({GarbageInput}, outputs, 0, 0, signers, redeemer))

\* A transaction that spends an output of the own address holding the user
\* token alone: on its own, or beside a state change that keeps the record
\* or burns the token.
SpendUser ==
    /\ last = NoTx
    /\ scope = "structure"
    /\ record # NoRecord
    /\ circulating > 0
    /\ \E with_ref \in BOOLEAN, n \in {-1, 0}, signers \in {{}, Keys} :
        /\ n < 0 => with_ref
        /\ LedgerAllows(n)
        /\ Submit("SpendUser",
                  Tx({UserInput} \cup (IF with_ref THEN {RefInput} ELSE {}),
                     IF with_ref
                     THEN <<Output(own_address, 1,
                                   TrackedAs(record, n, record.state.supply + n,
                                             AmpleRedeemer))>>
                     ELSE <<>>,
                     0, n, signers, AmpleRedeemer))

\* A second transaction built on the reference-token UTXO that the state
\* change just submitted spends.  The ledger drops it, without running a
\* script, when that UTXO is spent; otherwise the scripts decide.
Rival ==
    /\ scope = "concurrent"
    /\ last # NoTx
    /\ last.kind = "StateChange"
    /\ \E n \in {-1, 0, 1}, signers \in SignerSets :
        LET built_on == [RefInput EXCEPT !.datum = last.prior]
            datum == TrackedAs(last.prior, n, last.prior.state.supply + n, AmpleRedeemer)
            tx == Tx({built_on}, <<Output(own_address, 1, datum)>>, 0, n, signers,
                     AmpleRedeemer)
        IN  /\ last.prior.state.supply + n \in Supplies
            /\ SubmitAs(IF last.verdict = "ok" THEN "RivalOfApplied" ELSE "RivalOfRejected",
                        tx,
                        IF ConsumedBy(last) THEN "input already spent" ELSE Verdict(tx))

\* The ledger moves on to the next transaction.
Continue ==
    /\ last # NoTx
    /\ last' = NoTx
    /\ UNCHANGED <<variant, ORACLE_KEYS, divRound, scope, record, seedSpent, circulating,
                   refTokens>>

Next ==
    \/ Initialize
    \/ StateChange
    \/ MintOnly
    \/ MintReference
    \/ SpendSeed
    \/ SpendGarbage
    \/ SpendUser
    \/ Rival
    \/ Continue

Spec == Init /\ [][Next]_vars

\* The same machine with a ledger that does not stop: the deployment is
\* initialized while it can be, and the ledger moves on after a transaction.
LiveSpec == Spec /\ WF_vars(Initialize) /\ WF_vars(Continue)

\* ------------------------------------------- calc_token_price on its own
\* The price function applied to inputs drawn from a grid of small values,
\* once and then again with a second reserves change.
MaxReserve == 6

PriceReserves == 0..MaxReserve

PriceReserveChanges == 0..(MaxReserve + 1)

PriceInit ==
    /\ variant = "account_aggregate"
    /\ ORACLE_KEYS = <<>>
    /\ divRound \in DivRoundings
    /\ scope = "price"
    /\ record = NoRecord
    /\ seedSpent = FALSE
    /\ circulating = 0
    /\ refTokens = 0
    /\ last \in [kind : {"PriceInputs"}, R : PriceReserves, Delta : PriceReserveChanges,
                 current_supply : Supplies, supply_after_last_mint : Supplies]

ApplyPrice ==
    /\ last.kind = "PriceInputs"
    /\ last' = [kind |-> "Price", R |-> last.R, Delta |-> last.Delta,
                current_supply |-> last.current_supply,
                supply_after_last_mint |-> last.supply_after_last_mint,
                p |-> calc_token_price(last.R, last.Delta, last.current_supply,
                                       last.supply_after_last_mint)]
    /\ UNCHANGED <<variant, ORACLE_KEYS, divRound, scope, record, seedSpent, circulating,
                   refTokens>>

ApplyPriceAgain ==
    /\ last.kind = "Price"
    /\ \E Delta2 \in PriceReserveChanges :
        last' = [kind |-> "Price2", R |-> last.R, Delta |-> last.Delta,
                 current_supply |-> last.current_supply,
                 supply_after_last_mint |-> last.supply_after_last_mint,
                 p |-> last.p, Delta2 |-> Delta2,
                 p2 |-> calc_token_price(last.R, Delta2, last.current_supply,
                                         last.supply_after_last_mint)]
    /\ UNCHANGED <<variant, ORACLE_KEYS, divRound, scope, record, seedSpent, circulating,
                   refTokens>>

PriceNext == ApplyPrice \/ ApplyPriceAgain

PriceSpec == PriceInit /\ [][PriceNext]_vars

\* ------------------------- calc_token_price and the price bound of a mint
\* The price bound of validate_state_change, applied to the price and to a
\* new supply above the current one.
ApplyBound ==
    /\ last.kind = "Price"
    /\ \E N1 \in (last.current_supply + 1)..(MaxSupply + 1) :
        last' = [kind |-> "Bound", R |-> last.R, Delta |-> last.Delta,
                 current_supply |-> last.current_supply,
                 supply_after_last_mint |-> last.supply_after_last_mint,
                 p |-> last.p, N1 |-> N1,
                 within |-> account_aggregate_price_assert(N1, last.p, last.R)[1]]
    /\ UNCHANGED <<variant, ORACLE_KEYS, divRound, scope, record, seedSpent, circulating,
                   refTokens>>

BoundNext == ApplyPrice \/ ApplyBound

BoundSpec == PriceInit /\ [][BoundNext]_vars

\* --------------------------------------------- signed_by_quorum on its own
\* The quorum checks applied to every list of at most MaxKeys keys drawn from
\* MaxKeys keys, repeats included, and every set of signers among those keys.
MaxKeys == 3

KeyLists == UNION {[1..m -> 1..MaxKeys] : m \in 0..MaxKeys}

QuorumInit ==
    /\ variant = "wrapped_asset"
    /\ ORACLE_KEYS \in KeyLists
    /\ divRound = "floor"
    /\ scope = "quorum"
    /\ record = NoRecord
    /\ seedSpent = FALSE
    /\ circulating = 0
    /\ refTokens = 0
    /\ last \in [kind : {"QuorumInputs"},
                 tx : {Tx({}, <<>>, 0, 0, signers, AmpleRedeemer) :
                          signers \in SUBSET (1..MaxKeys)}]

\* The fold of signed_by_quorum: the signer count.
CountSigners ==
    /\ last.kind = "QuorumInputs"
    /\ last' = [kind |-> "Counted", tx |-> last.tx,
                n_signers |-> n_signers(ORACLE_KEYS, last.tx.signers, 1)]
    /\ UNCHANGED <<variant, ORACLE_KEYS, divRound, scope, record, seedSpent, circulating,
                   refTokens>>

\* signed_by_quorum of wrapped_asset, then that of the two other variants.
ApplyQuorum ==
    /\ last.kind = "Counted"
    /\ last' = [kind |-> "Quorum", tx |-> last.tx, n_signers |-> last.n_signers,
                threshold |-> wrapped_asset_signed_by_quorum(last.tx),
                majority |-> one_to_one_asset_signed_by_quorum(last.tx),
                aggregate |-> account_aggregate_signed_by_quorum(last.tx)]
    /\ UNCHANGED <<variant, ORACLE_KEYS, divRound, scope, record, seedSpent, circulating,
                   refTokens>>

QuorumNext == CountSigners \/ ApplyQuorum

QuorumSpec == QuorumInit /\ [][QuorumNext]_vars

\* ------------------------------------------- filterTransfersAfter on its own
MaxTransfers == 3

MaxIds == 3

\* A TransferID is a string; the list may hold one more than once.
TransferID == 1..MaxIds

TransferLists == UNION {[1..m -> TransferID] : m \in 0..MaxTransfers}

\* Array.prototype.findIndex: the 0-based index of the first element that
\* satisfies the test, -1 when there is none.
RECURSIVE findIndex(_, _, _)
findIndex(transfers, after, i) ==
    IF i > Len(transfers) THEN 0 - 1
    ELSE IF transfers[i] = after THEN i - 1
    ELSE findIndex(transfers, after, i + 1)

\* Array.prototype.slice(start), 0 <= start: the elements from the 0-based
\* index start to the end.
slice(transfers, start) == SubSeq(transfers, start + 1, Len(transfers))

\* The filter that keeps the transfer it is given.
filterTransfersFrom(transfers, after) ==
    LET cutOff == findIndex(transfers, after, 1) IN
    IF cutOff # 0 - 1 THEN slice(transfers, cutOff) ELSE transfers

filterTransfersAfter(transfers, after) ==
    LET cutOff == findIndex(transfers, after, 1) IN
    IF cutOff # 0 - 1 THEN slice(transfers, cutOff + 1) ELSE transfers

FilterInit ==
    /\ variant = "account_aggregate"
    /\ ORACLE_KEYS = <<>>
    /\ divRound = "floor"
    /\ scope = "supply"
    /\ record = NoRecord
    /\ seedSpent = FALSE
    /\ circulating = 0
    /\ refTokens = 0
    /\ last \in [kind : {"FilterInputs"}, transfers : TransferLists, after : TransferID]

ApplyFilter ==
    /\ last.kind = "FilterInputs"
    /\ last' = [kind |-> "Filtered", transfers |-> last.transfers, after |-> last.after,
                result |-> filterTransfersAfter(last.transfers, last.after)]
    /\ UNCHANGED <<variant, ORACLE_KEYS, divRound, scope, record, seedSpent, circulating,
                   refTokens>>

FilterNext == ApplyFilter

FilterSpec == FilterInit /\ [][FilterNext]_vars

\* ------------------------------------------------ retryExpBackoff on its own
MaxRetries == 3

\* config.maxRetries and config.delay (milliseconds).
RetryLimits == (0 - 1)..MaxRetries

RetryDelays == {0, 1000}

\* What a callback resolves with, and what it throws.
CallbackValues == {"v1", "v2"}

CallbackErrors == {"e1", "e2"}

RECURSIVE pow2(_)
pow2(n) == IF n <= 0 THEN 1 ELSE 2 * pow2(n - 1)

\* The loop that waits after each failed attempt, the final one included.
waits_after_each_attempt(attempt, maxRetries) == TRUE

\* if (attempt <= config.maxRetries): a wait comes before a further attempt.
waits_before_next_attempt(attempt, maxRetries) == attempt <= maxRetries

\* while (attempt <= config.maxRetries)
loop_condition(attempt, maxRetries) == attempt <= maxRetries

\* The call of retryExpBackoff: attempt = 1, lastError = undefined.  calls,
\* waits and thrown record what the run did: the invocations of the callback,
\* the timers set and the errors the callback threw, in order.
RetryInit ==
    /\ variant = "account_aggregate"
    /\ ORACLE_KEYS = <<>>
    /\ divRound = "floor"
    /\ scope = "supply"
    /\ record = NoRecord
    /\ seedSpent = FALSE
    /\ circulating = 0
    /\ refTokens = 0
    /\ last \in [kind : {"retryExpBackoff"}, pc : {"while"}, attempt : {1},
                 lastError : {"undefined"}, delay : RetryDelays,
                 maxRetries : RetryLimits, timeout : {0}, settled : {<<"pending", "undefined">>},
                 calls : {0}, waits : {0}, thrown : {<<>>}]

RetryFrame ==
    UNCHANGED <<variant, ORACLE_KEYS, divRound, scope, record, seedSpent, circulating,
                refTokens>>

\* The loop condition holds: the callback is invoked.
InvokeCallback ==
    /\ last.kind = "retryExpBackoff"
    /\ last.pc = "while"
    /\ loop_condition(last.attempt, last.maxRetries)
    /\ last' = [last EXCEPT !.pc = "await callback", !.calls = @ + 1]
    /\ RetryFrame

\* The callback resolves: return res.
CallbackResolves ==
    /\ last.kind = "retryExpBackoff"
    /\ last.pc = "await callback"
    /\ \E res \in CallbackValues :
        last' = [last EXCEPT !.pc = "returned", !.settled = <<"resolved", res>>]
    /\ RetryFrame

\* The callback rejects: the error is kept, the attempt counted and, when a
\* further attempt follows, the timer set.
CallbackRejects ==
    /\ last.kind = "retryExpBackoff"
    /\ last.pc = "await callback"
    /\ \E e \in CallbackErrors :
        LET attempt == last.attempt + 1 IN
        IF waits_before_next_attempt(attempt, last.maxRetries)
        THEN last' = [last EXCEPT !.lastError = e, !.attempt = attempt,
                                  !.thrown = Append(@, e),
                                  !.pc = "await timeout", !.waits = @ + 1,
                                  !.timeout = last.delay * pow2(attempt - 1)]
        ELSE last' = [last EXCEPT !.lastError = e, !.attempt = attempt,
                                  !.thrown = Append(@, e), !.pc = "while"]
    /\ RetryFrame

\* The timer fires.
TimerFires ==
    /\ last.kind = "retryExpBackoff"
    /\ last.pc = "await timeout"
    /\ last' = [last EXCEPT !.pc = "while"]
    /\ RetryFrame

\* The loop condition fails: throw lastError.
ThrowLastError ==
    /\ last.kind = "retryExpBackoff"
    /\ last.pc = "while"
    /\ ~loop_condition(last.attempt, last.maxRetries)
    /\ last' = [last EXCEPT !.pc = "thrown", !.settled = <<"rejected", last.lastError>>]
    /\ RetryFrame

RetryNext ==
    \/ InvokeCallback
    \/ CallbackResolves
    \/ CallbackRejects
    \/ TimerFires
    \/ ThrowLastError

\* The event loop runs what is ready; every invocation of the callback
\* settles and every timer fires.
RetrySpec == RetryInit /\ [][RetryNext]_vars /\ WF_vars(RetryNext)

\* ================================================================ claims
\* What the claims speak of, read from the last submitted transaction.
TxKinds ==
    {"Initialize", "StateChange", "MintOnly", "MintReference", "SpendSeed", "SpendGarbage",
     "SpendUser", "RivalOfApplied", "RivalOfRejected"}

Submitted == last # NoTx /\ last.kind \in TxKinds

Accepted == Submitted /\ last.verdict = "ok"

AcceptedStateChange == Accepted /\ last.kind = "StateChange"

minted_n == last.tx.minted.user

prior_state == last.prior.state

\* The record the transaction proposes: the datum of the output the validator
\* finds at the own address with the reference token.
proposed == last.tx.outputs[FindRefOutput(last.tx, FALSE)].datum

\* The last transaction was a state change that put the reference token in
\* an output of the own address with a metadata datum: the proposed record.
ProposesStateChange ==
    /\ Submitted
    /\ last.kind = "StateChange"
    /\ FindRefOutput(last.tx, FALSE) # 0
    /\ IsMetadata(proposed)

\* The number of configured oracle keys that signed the last transaction.
signer_count ==
    Cardinality({i \in 1..Len(ORACLE_KEYS) : ORACLE_KEYS[i] \in last.tx.signers})

\* The variant's threshold: at least half of the keys, rounded up, in
\* wrapped_asset; more than half of the keys in the two other variants.
MeetsQuorum ==
    IF IsWrapped
    THEN 2 * signer_count >= Len(ORACLE_KEYS)
    ELSE 2 * signer_count > Len(ORACLE_KEYS)

\* C1 (conservation): every accepted state change, in each variant, leaves
\* new supply - prior supply equal to the signed quantity n of the user token
\* the transaction minted or burned (0 when it minted none).
C1_Conservation ==
    AcceptedStateChange =>
        record.state.supply - prior_state.supply = minted_n

\* An accepted burn: the supply went down by what was burned.
C1_Witness ==
    /\ AcceptedStateChange
    /\ minted_n < 0
    /\ record.state.supply = prior_state.supply + minted_n

\* C2: after initialization the record's supply is the quantity of the user
\* token in existence; an accepted transaction that mints or burns the user
\* token spends the reference-token UTXO, and an accepted initialization
\* mints no user token.
C2_SupplyIsCirculating ==
    /\ record # NoRecord => record.state.supply = circulating
    /\ record = NoRecord => circulating = 0
    /\ (Accepted /\ minted_n # 0) =>
            \E input \in last.tx.inputs :
                input.address = own_address /\ input.ref > 0
    /\ (Accepted /\ last.kind = "Initialize") => minted_n = 0

\* A mint that leaves the reference-token UTXO alone was refused while tokens
\* were in circulation.
C2_Witness ==
    /\ Submitted
    /\ last.kind = "MintOnly"
    /\ last.verdict = "ref token not spent"
    /\ record # NoRecord
    /\ circulating > 0
    /\ record.state.supply = circulating

\* The identity fields the claim names.
ClaimedIdentityFields ==
    {"type", "account", "ticker", "decimals"}
    \cup (IF IsWrapped THEN {"venue", "policy"} ELSE {})

\* C3 (immutability): every accepted state change leaves each identity field
\* as it was in the prior record, so the identity fields of every record are
\* those fixed at initialization.
C3_Immutability ==
    /\ AcceptedStateChange =>
            \A f \in ClaimedIdentityFields : record.state[f] = prior_state[f]
    /\ record # NoRecord =>
            \A f \in ClaimedIdentityFields : record.state[f] = GenesisState[f]

\* A state change that proposed another ticker was refused, and the record
\* still holds the configured one.
C3_Witness ==
    /\ ProposesStateChange
    /\ proposed.state.ticker # prior_state.ticker
    /\ last.verdict # "ok"
    /\ record.state.ticker = TICKER

\* C4: no state change that mints (n > 0) is accepted unless the number of
\* configured oracle keys that signed meets the variant's threshold.
C4_MintNeedsQuorum ==
    (AcceptedStateChange /\ minted_n > 0) => MeetsQuorum

\* A mint accepted with two distinct configured keys, both of which signed.
C4_Witness ==
    /\ AcceptedStateChange
    /\ minted_n > 0
    /\ ORACLE_KEYS = <<1, 2>>
    /\ last.tx.signers = {1, 2}
    /\ ~IsWrapped

\* The constant fields of wrapped_asset besides the identity fields.
ClaimedConstantFields == IF IsWrapped THEN {"quorum", "oracles", "seed"} ELSE {}

\* C5: a state change with n <= 0 that conserves the supply, keeps the
\* identity and constant fields and (account_aggregate) leaves the tracking
\* fields unchanged is accepted, whoever signed and whatever the redeemer.
C5_BurnNeedsNoQuorum ==
    (/\ ProposesStateChange
     /\ minted_n <= 0
     /\ proposed.state.supply - prior_state.supply = minted_n
     /\ \A f \in ClaimedIdentityFields \cup ClaimedConstantFields \cup TrackingFields :
            proposed.state[f] = prior_state[f])
    => last.verdict = "ok"

\* C5 holds of every state change but those of wrapped_asset that meet a
\* record whose oracles field initialization left different from ORACLES.
C5_FromInitializedOracles ==
    (/\ ProposesStateChange
     /\ IsWrapped => prior_state.oracles = ORACLES
     /\ minted_n <= 0
     /\ proposed.state.supply - prior_state.supply = minted_n
     /\ \A f \in ClaimedIdentityFields \cup ClaimedConstantFields \cup TrackingFields :
            proposed.state[f] = prior_state[f])
    => last.verdict = "ok"

\* The price the last transaction is held to.
max_price ==
    calc_token_price(last.tx.redeemer.R, last.tx.redeemer.Delta,
                     prior_state.supply, prior_state.supply_after_last_mint)

\* C6 (price-bound soundness, account_aggregate): for R >= 0 and Delta >= 0
\* no state change minting n > 0 units with n * maxPrice > R is accepted.
C6_PriceBoundSound ==
    (/\ AcceptedStateChange
     /\ IsAggregate
     /\ minted_n > 0
     /\ last.tx.redeemer.R >= 0
     /\ last.tx.redeemer.Delta >= 0)
    => ~(minted_n * max_price > last.tx.redeemer.R)

\* A mint priced above the reserves was refused although every key signed.
C6_Witness ==
    /\ ProposesStateChange
    /\ IsAggregate
    /\ minted_n > 0
    /\ minted_n * max_price > last.tx.redeemer.R
    /\ last.tx.signers = Keys
    /\ last.verdict = "too many tokens minted"

\* What C7 asks of a mint besides the price bound.
WellFormedMint ==
    /\ ProposesStateChange
    /\ IsAggregate
    /\ minted_n > 0
    /\ proposed.state.supply - prior_state.supply = minted_n
    /\ \A f \in ClaimedIdentityFields : proposed.state[f] = prior_state[f]
    /\ MeetsQuorum
    /\ proposed.state.supply_after_last_mint = proposed.state.supply
    /\ proposed.state.transfer_id_before_last_mint = last.tx.redeemer.latest_transfer_id

\* C7 as stated: such a mint is accepted whenever n * maxPrice <= R.
C7_MintedQuantityBound ==
    (WellFormedMint /\ minted_n * max_price <= last.tx.redeemer.R)
    => last.verdict = "ok"

\* C7 as amended: such a mint is accepted whenever N1 * maxPrice <= R, N1
\* the new supply; Scenario C (N0 = Nlast = 1000, R = 1,100,000,
\* Delta = 100,000, n = 90) meets that bound at the price 1000.
C7_NewSupplyBound ==
    /\ (WellFormedMint /\ proposed.state.supply * max_price <= last.tx.redeemer.R)
       => last.verdict = "ok"
    /\ calc_token_price(1100000, 100000, 1000, 1000) = 1000
    /\ 1090 * calc_token_price(1100000, 100000, 1000, 1000) <= 1100000

\* A mint accepted at a positive price taken from the two snapshots.
C7_Witness ==
    /\ WellFormedMint
    /\ last.verdict = "ok"
    /\ prior_state.supply > 0
    /\ prior_state.supply_after_last_mint > 0
    /\ max_price > 0

\* The smaller of two numbers.
Smaller(a, b) == CHOOSE m \in {a, b} : m <= a /\ m <= b

\* C8: calc_token_price returns the configured initial price when N0 = 0 or
\* Nlast = 0 and else the smaller of priceAtLastMint = (R - Delta) / Nlast
\* and priceNow = R / N0.
C8_PriceIsReference ==
    last.kind \in {"Price", "Price2"} =>
        last.p = IF last.current_supply = 0 \/ last.supply_after_last_mint = 0
                 THEN INITIAL_PRICE
                 ELSE Smaller(RealDivInt(last.R - last.Delta, last.supply_after_last_mint),
                              RealDivInt(last.R, last.current_supply))

\* The price at the last mint was the smaller one, and was returned.
C8_Witness ==
    /\ last.kind = "Price"
    /\ last.current_supply > 0
    /\ last.supply_after_last_mint > 0
    /\ last.p * last.current_supply < last.R - last.current_supply
    /\ last.p * last.supply_after_last_mint = last.R - last.Delta

\* C9: for fixed R, N0 > 0 and Nlast > 0 the price does not increase with
\* Delta.
C9_PriceNonIncreasing ==
    (/\ last.kind = "Price2"
     /\ last.current_supply > 0
     /\ last.supply_after_last_mint > 0
     /\ last.Delta <= last.Delta2)
    => last.p2 <= last.p

\* A larger reserves change gave a strictly smaller price.
C9_Witness ==
    /\ last.kind = "Price2"
    /\ last.current_supply > 0
    /\ last.supply_after_last_mint > 0
    /\ last.Delta < last.Delta2
    /\ last.p2 < last.p

\* C10 (I4 on mint, account_aggregate): after every accepted transaction
\* with n > 0 the record's supply_after_last_mint is its new supply and its
\* transfer_id_before_last_mint is the redeemer's latest_transfer_id.
C10_TrackingOnMint ==
    (AcceptedStateChange /\ IsAggregate /\ minted_n > 0) =>
        /\ record.state.supply_after_last_mint = record.state.supply
        /\ record.state.transfer_id_before_last_mint
               = last.tx.redeemer.latest_transfer_id

\* An accepted mint that replaced the stored transfer id and snapshot.
C10_Witness ==
    /\ AcceptedStateChange
    /\ IsAggregate
    /\ minted_n > 0
    /\ prior_state.transfer_id_before_last_mint # last.tx.redeemer.latest_transfer_id
    /\ record.state.transfer_id_before_last_mint = last.tx.redeemer.latest_transfer_id
    /\ prior_state.supply_after_last_mint # record.state.supply
    /\ record.state.supply_after_last_mint = record.state.supply

\* C11 (I4 frame, account_aggregate): every accepted transaction with n <= 0
\* that meets a record leaves supply_after_last_mint and
\* transfer_id_before_last_mint as they were in the prior record.
C11_TrackingFrame ==
    (Accepted /\ IsAggregate /\ last.prior # NoRecord /\ minted_n <= 0) =>
        /\ record # NoRecord
        /\ record.state.supply_after_last_mint = prior_state.supply_after_last_mint
        /\ record.state.transfer_id_before_last_mint
               = prior_state.transfer_id_before_last_mint

\* An accepted burn below the supply of the last mint: the snapshot and the
\* transfer id of that mint are still in the record.
C11_Witness ==
    /\ AcceptedStateChange
    /\ IsAggregate
    /\ minted_n < 0
    /\ record.state.supply < record.state.supply_after_last_mint
    /\ record.state.supply_after_last_mint = prior_state.supply_after_last_mint
    /\ record.state.transfer_id_before_last_mint = "a"
    /\ prior_state.transfer_id_before_last_mint = "a"

\* C12: an initialization (one reference token minted, no record yet) whose
\* inputs do not include the seed output is rejected.
C12_InitializationNeedsSeed ==
    (/\ Submitted
     /\ last.kind = "Initialize"
     /\ last.tx.minted.ref = 1
     /\ last.prior = NoRecord
     /\ SeedInput \notin last.tx.inputs)
    => last.verdict # "ok"

\* An initialization with the genesis record at the own address, refused
\* only for the seed.
C12_Witness ==
    /\ Submitted
    /\ last.kind = "Initialize"
    /\ last.tx.minted = [ref |-> 1, user |-> 0]
    /\ last.tx.outputs = <<Output(own_address, 1, GenesisMetadata)>>
    /\ SeedInput \notin last.tx.inputs
    /\ last.verdict \in {"seed not spent", "seed UTXO not spent"}
    /\ record = NoRecord

\* C13: at most one initialization is ever accepted.  A transaction that
\* mints or burns the reference token is accepted only when it mints one,
\* consumes the seed and meets no record; so no such transaction is accepted
\* once a record exists, and at most one reference token exists.
C13_InitializedOnce ==
    /\ refTokens \in {0, 1}
    /\ refTokens = 1 => seedSpent
    /\ (Accepted /\ last.tx.minted.ref # 0) =>
            /\ last.tx.minted.ref = 1
            /\ SeedInput \in last.tx.inputs
            /\ last.prior = NoRecord
            /\ refTokens = 1

\* With the record in place, a second initialization carrying the genesis
\* record was refused for the seed.
C13_Witness ==
    /\ Submitted
    /\ last.kind = "MintReference"
    /\ last.prior # NoRecord
    /\ last.tx.minted.ref = 1
    /\ last.tx.outputs = <<Output(own_address, 1, GenesisMetadata)>>
    /\ last.verdict \in {"seed not spent", "seed UTXO not spent"}
    /\ refTokens = 1
    /\ record = last.prior

\* The fields of the state an initialization fixes: the supply, the tracking
\* fields and every field the variant has a configured constant for.
GenesisFields ==
    {"supply"} \cup TrackingFields \cup IdentityFields
    \cup (IF IsWrapped THEN {} ELSE DisplayFields)

\* C14 (genesis state): every accepted initialization leaves, at the own
\* address with exactly one reference token, a record with supply 0, the
\* tracking fields at zero, every constant field at its configured value,
\* version 1 and extra Unused.
C14_GenesisState ==
    (Accepted /\ last.kind = "Initialize") =>
        /\ FindRefOutput(last.tx, TRUE) # 0
        /\ record = last.tx.outputs[FindRefOutput(last.tx, TRUE)].datum
        /\ IsMetadata(record)
        /\ \A f \in GenesisFields : record.state[f] = GenesisState[f]
        /\ record.version = 1
        /\ record.extra = "Unused"

\* C14 holds of every field but the oracles field of wrapped_asset.
C14_GenesisBesidesOracles ==
    (Accepted /\ last.kind = "Initialize") =>
        /\ FindRefOutput(last.tx, TRUE) # 0
        /\ record = last.tx.outputs[FindRefOutput(last.tx, TRUE)].datum
        /\ IsMetadata(record)
        /\ \A f \in GenesisFields \ {"oracles"} : record.state[f] = GenesisState[f]
        /\ record.version = 1
        /\ record.extra = "Unused"

\* C15 (wrapped_asset): every record, the one initialization writes
\* included, has quorum = QUORUM, oracles = ORACLES and seed = SEED.
C15_WrappedConstants ==
    (IsWrapped /\ record # NoRecord) =>
        /\ record.state.quorum = QUORUM
        /\ record.state.oracles = ORACLES
        /\ record.state.seed = SEED

\* C15 holds of quorum and seed in every record, and of oracles in every
\* record an accepted state change writes.
C15_BesidesInitialOracles ==
    (IsWrapped /\ record # NoRecord) =>
        /\ record.state.quorum = QUORUM
        /\ record.state.seed = SEED
        /\ AcceptedStateChange => record.state.oracles = ORACLES

\* C16: every record has version 1 and extra Unused.
C16_VersionAndExtra ==
    record # NoRecord => (record.version = 1 /\ record.extra = "Unused")

\* C16 holds of extra in every record, and of version in the record an
\* initialization writes.
C16_ExtraAndInitialVersion ==
    record # NoRecord =>
        /\ record.extra = "Unused"
        /\ (Accepted /\ last.kind = "Initialize") => record.version = 1

\* C17: the record is never destroyed.  No accepted transaction burns the
\* reference token; every accepted state change puts the reference token in
\* an output of the own address with a metadata datum; so from initialization
\* on there is one reference token, and it is at the own address with a
\* record.
C17_RecordPersists ==
    /\ Accepted => last.tx.minted.ref >= 0
    /\ AcceptedStateChange =>
            /\ OwnRefOutputs(last.tx) # {}
            /\ \A i \in OwnRefOutputs(last.tx) : record = last.tx.outputs[i].datum
    /\ (Submitted /\ last.prior # NoRecord) => refTokens = 1
    /\ refTokens = 1 => IsMetadata(record)
    /\ refTokens = 0 => record = NoRecord

\* A state change that sent the reference token to another address was
\* refused, and the record is where and what it was.
C17_Witness ==
    /\ Submitted
    /\ last.kind = "StateChange"
    /\ last.tx.outputs = <<Output("wallet", 1, last.tx.outputs[1].datum)>>
    /\ IsMetadata(last.tx.outputs[1].datum)
    /\ last.tx.minted.user = 0
    /\ last.verdict # "ok"
    /\ refTokens = 1
    /\ record = last.prior

\* C18: a transaction that mints or burns more than one token name of the
\* own policy is rejected; the reference token and the user token are never
\* minted or burned by the same transaction.
C18_OneTokenKind ==
    (Submitted /\ last.tx.minted.ref # 0 /\ last.tx.minted.user # 0) =>
        last.verdict # "ok"

\* An initialization that is correct but for the user token it mints beside
\* the reference token was refused for the two token kinds.
C18_Witness ==
    /\ Submitted
    /\ last.kind = "Initialize"
    /\ last.tx.minted = [ref |-> 1, user |-> 1]
    /\ SeedInput \in last.tx.inputs
    /\ last.tx.outputs = <<Output(own_address, 1, GenesisMetadata)>>
    /\ last.verdict = "only one token kind can be minted or burned"
    /\ record = NoRecord

\* C19 (exempt path): the spending of an output of the own address that
\* holds no token of the own policy is accepted, whatever the redeemer, the
\* signers, the outputs and the record.
C19_GarbageSpendable ==
    (Submitted /\ last.kind = "SpendGarbage") => last.verdict = "ok"

\* Half of k + 1, rounded up.
CeilHalfOfNext(k) == (k + 2) \div 2

\* The last transaction was a mint of wrapped_asset that came to the quorum
\* check, the last assertion of validate_state_change.
WrappedMintAtQuorumCheck ==
    /\ ProposesStateChange
    /\ IsWrapped
    /\ minted_n > 0
    /\ last.verdict \in {"ok", "not signed by simple quorum of oracles"}

\* C20 (wrapped_asset): with k oracle keys a positive mint passes the quorum
\* check if and only if at least ceil((k + 1) / 2) of the keys signed.
C20_ThresholdRoundedUp ==
    WrappedMintAtQuorumCheck =>
        (last.verdict = "ok" <=> signer_count >= CeilHalfOfNext(Len(ORACLE_KEYS)))

\* What the quorum check of wrapped_asset does: it passes if and only if at
\* least (k + 1) / 2, rounded down, of the key entries signed.
C20_ThresholdRoundedDown ==
    WrappedMintAtQuorumCheck =>
        (last.verdict = "ok"
            <=> n_signers(ORACLE_KEYS, last.tx.signers, 1) >= (Len(ORACLE_KEYS) + 1) \div 2)

\* The keys of the configured list.
ConfiguredKeys == {ORACLE_KEYS[i] : i \in 1..Len(ORACLE_KEYS)}

\* The configured list names no key twice.
DistinctKeys == Cardinality(ConfiguredKeys) = Len(ORACLE_KEYS)

IsEven(k) == k % 2 = 0

\* C21 as stated: the policy count >= ceil((k + 1) / 2) and the strict
\* majority count > k / 2 of the code agree for odd k, and for even k the
\* strict majority asks for exactly one signer more than the threshold.
C21_PoliciesAsStated ==
    (last.kind = "Quorum" /\ DistinctKeys) =>
        LET k == Len(ORACLE_KEYS)
            count == last.n_signers
        IN  /\ last.majority <=> 2 * count > k
            /\ ~IsEven(k) => (last.majority <=> count >= CeilHalfOfNext(k))
            /\ IsEven(k) => (last.majority <=> count >= CeilHalfOfNext(k) + 1)

\* C21 as amended: the policies of the code are count >= (k + 1) / 2 rounded
\* down and count > k / 2; they agree for odd k, and for even k the strict
\* majority asks for exactly one signer more than the threshold.
C21_PoliciesAsCoded ==
    last.kind = "Quorum" =>
        LET k == Len(ORACLE_KEYS)
            count == last.n_signers
            least == (k + 1) \div 2
        IN  /\ last.threshold <=> count >= least
            /\ last.majority <=> 2 * count > k
            /\ last.aggregate <=> last.majority
            /\ ~IsEven(k) => (last.threshold <=> last.majority)
            /\ IsEven(k) => (last.majority <=> count >= least + 1)

\* Half of an even number of keys signed: enough for the threshold of
\* wrapped_asset, not for the majority of the two other variants.
C21_Witness ==
    /\ last.kind = "Quorum"
    /\ DistinctKeys
    /\ IsEven(Len(ORACLE_KEYS))
    /\ Len(ORACLE_KEYS) > 0
    /\ 2 * last.n_signers = Len(ORACLE_KEYS)
    /\ last.threshold
    /\ ~last.majority

\* C22: the signer count is the number of distinct configured keys that
\* signed, however the list is arranged and whatever other keys signed.
C22_DistinctSigners ==
    last.kind \in {"Counted", "Quorum"} =>
        last.n_signers = Cardinality(ConfiguredKeys \cap last.tx.signers)

\* C22 holds of every list that names no key twice.
C22_DistinctSignersOfDistinctKeys ==
    (last.kind \in {"Counted", "Quorum"} /\ DistinctKeys) =>
        last.n_signers = Cardinality(ConfiguredKeys \cap last.tx.signers)

\* A no-op: a state change that found its output and minted or burned nothing.
NoOp == ProposesStateChange /\ minted_n = 0

\* The fields of the state that are not display fields.
FieldsBesidesDisplay == (DOMAIN GenesisState) \ DisplayFields

\* C23 (idempotence of no-op): from every reachable record a state change
\* with n = 0 that proposes the prior record again is accepted, and every
\* accepted state change with n = 0 leaves the record as it was except for
\* the display fields.
C23_NoOpIdempotent ==
    /\ (NoOp /\ proposed = last.prior) => last.verdict = "ok"
    /\ (NoOp /\ Accepted) =>
            /\ \A f \in FieldsBesidesDisplay : record.state[f] = prior_state[f]
            /\ \A f \in EnvelopeFields : record[f] = last.prior[f]

\* What holds of a no-op: the identical record is accepted when its oracles
\* are the configured ones, and an accepted no-op keeps every field but the
\* display fields, the version and, in wrapped_asset, the oracles.
C23_BesidesOraclesAndVersion ==
    /\ (NoOp /\ proposed = last.prior /\ (IsWrapped => prior_state.oracles = ORACLES)) =>
            last.verdict = "ok"
    /\ (NoOp /\ proposed = last.prior /\ last.verdict # "ok") =>
            last.verdict = "oracles changed"
    /\ (NoOp /\ Accepted) =>
            /\ \A f \in FieldsBesidesDisplay \ {"oracles"} :
                    record.state[f] = prior_state[f]
            /\ IsWrapped => record.state.oracles = ORACLES
            /\ record.extra = last.prior.extra

\* A proposed mint, and the new supply it writes.
ProposesMint == ProposesStateChange /\ minted_n > 0

proposed_N1 == proposed.state.supply

\* C24: in wrapped_asset every accepted mint leaves the new supply N1 at or
\* below the cap R of the redeemer, and a mint with N1 > R is rejected even
\* when it is signed by a quorum.
C24_WrappedCap ==
    IsWrapped =>
        /\ (ProposesMint /\ Accepted) =>
                /\ proposed_N1 <= last.tx.redeemer.R
                /\ record.state.supply <= last.tx.redeemer.R
        /\ (ProposesMint /\ proposed_N1 > last.tx.redeemer.R) => ~Accepted

\* A mint over the cap, signed by every oracle and conserving the supply,
\* was rejected for the cap.
C24_Witness ==
    /\ IsWrapped
    /\ ProposesMint
    /\ ORACLE_KEYS # <<>>
    /\ last.tx.signers = Keys
    /\ wrapped_asset_signed_by_quorum(last.tx)
    /\ proposed_N1 - prior_state.supply = minted_n
    /\ proposed_N1 > last.tx.redeemer.R
    /\ last.verdict = "too many tokens minted"

\* What C25 asks of a mint of one_to_one_asset: the supply is conserved, the
\* identity fields are kept and the quorum is met.
OneToOneMint ==
    /\ variant = "one_to_one_asset"
    /\ ProposesMint
    /\ proposed_N1 - prior_state.supply = minted_n
    /\ \A f \in ClaimedIdentityFields : proposed.state[f] = prior_state[f]
    /\ MeetsQuorum

\* C25 as stated: one_to_one_asset has no cap; such a mint is accepted for
\* every value of the declared reserves R, R < N1 included.
C25_OneToOneUncapped ==
    OneToOneMint => last.verdict = "ok"

\* C25 as amended: one_to_one_asset caps the new supply as wrapped_asset
\* does; such a mint is accepted exactly when N1 <= R.
C25_OneToOneCapped ==
    OneToOneMint =>
        /\ last.verdict = "ok" <=> proposed_N1 <= last.tx.redeemer.R
        /\ last.verdict # "ok" => last.verdict = "too many tokens minted"

\* Such a mint, signed by every oracle, rejected because R < N1.
C25_Witness ==
    /\ OneToOneMint
    /\ last.tx.signers = Keys
    /\ last.tx.redeemer.R < proposed_N1
    /\ last.verdict = "too many tokens minted"

\* C26: in account_aggregate the same evidence cannot justify two mints; a
\* mint whose latest_transfer_id is the transfer_id_before_last_mint that an
\* earlier mint stored in the prior record is rejected.
C26_NoFingerprintTwice ==
    (/\ IsAggregate
     /\ ProposesMint
     /\ prior_state.supply_after_last_mint > 0
     /\ prior_state.transfer_id_before_last_mint # NoTransferId
     /\ last.tx.redeemer.latest_transfer_id = prior_state.transfer_id_before_last_mint)
    => ~Accepted

\* What the code asks of the fingerprint: an accepted mint stores the one its
\* redeemer declares, whatever the prior record holds.
C26_FingerprintStored ==
    (IsAggregate /\ ProposesMint /\ Accepted) =>
        record.state.transfer_id_before_last_mint = last.tx.redeemer.latest_transfer_id

\* The edge record of C27: tokens in circulation and no mint on record.
EdgeRecord ==
    /\ IsAggregate
    /\ record # NoRecord
    /\ record.state.supply_after_last_mint = 0
    /\ record.state.supply > 0

\* The price the price bound of the last mint used.
mint_price ==
    calc_token_price(last.tx.redeemer.R, last.tx.redeemer.Delta,
                     prior_state.supply, prior_state.supply_after_last_mint)

\* C27 as stated: in account_aggregate a record with supply_after_last_mint
\* = 0 and supply > 0 is reached from initialization by accepted transitions;
\* a deployment whose tokens keep being minted and burned comes to it.
C27_EdgeRecordReached ==
    []<>(AcceptedStateChange /\ minted_n # 0) => <>(IsAggregate => EdgeRecord)

\* C27 as amended: no record of account_aggregate has supply_after_last_mint
\* = 0 and supply > 0; a record without a mint on it has supply 0, and a mint
\* from a record of supply 0 is priced at INITIAL_PRICE, so that it is
\* accepted only when N1 * INITIAL_PRICE <= R.
C27_NoMintNoSupply ==
    /\ ~EdgeRecord
    /\ (IsAggregate /\ record # NoRecord /\ record.state.supply_after_last_mint = 0) =>
            record.state.supply = 0
    /\ (IsAggregate /\ ProposesMint /\ prior_state.supply = 0) =>
            /\ mint_price = INITIAL_PRICE
            /\ Accepted => proposed_N1 * INITIAL_PRICE <= last.tx.redeemer.R

\* A first mint, from the record initialization wrote, accepted at
\* INITIAL_PRICE with reserves that the price of the two snapshots would not
\* have allowed.
C27_Witness ==
    /\ IsAggregate
    /\ ProposesMint
    /\ Accepted
    /\ prior_state.supply = 0
    /\ prior_state.supply_after_last_mint = 0
    /\ mint_price = INITIAL_PRICE
    /\ proposed_N1 * INITIAL_PRICE = last.tx.redeemer.R
    /\ record.state.supply_after_last_mint = record.state.supply

\* A record with supply 0 and the tracking fields at their zero values.
ZeroRecord(metadata) ==
    /\ metadata # NoRecord
    /\ metadata.state.supply = 0
    /\ metadata.state.supply_after_last_mint = 0
    /\ metadata.state.transfer_id_before_last_mint = NoTransferId

\* C28 (I1) as stated: the zero record is the one initialization produces,
\* and no accepted state change of account_aggregate produces a zero record.
C28_ZeroRecordOnce ==
    /\ (Accepted /\ last.kind = "Initialize") => ZeroRecord(record)
    /\ (IsAggregate /\ AcceptedStateChange) => ~ZeroRecord(record)

\* C28 as amended: initialization produces the zero record; an accepted
\* state change of account_aggregate produces a zero record only from a zero
\* record and with n = 0, so that after the first accepted mint the record is
\* never a zero record again.
C28_ZeroRecordUntilFirstMint ==
    /\ (Accepted /\ last.kind = "Initialize") => ZeroRecord(record)
    /\ (IsAggregate /\ AcceptedStateChange /\ ZeroRecord(record)) =>
            /\ ZeroRecord(last.prior)
            /\ minted_n = 0
    /\ (IsAggregate /\ AcceptedStateChange /\ minted_n # 0) => ~ZeroRecord(record)

\* A state change of the zero record that minted nothing and changed a
\* display field was accepted: the new record is a zero record again.
C28_Witness ==
    /\ IsAggregate
    /\ AcceptedStateChange
    /\ minted_n = 0
    /\ ZeroRecord(last.prior)
    /\ ZeroRecord(record)
    /\ \E f \in DisplayFields : record.state[f] # prior_state[f]

\* C29: in every variant the supply of every record reached from
\* initialization by accepted transactions is at least 0; no burn drives it
\* below.
C29_SupplyNonNegative ==
    /\ record # NoRecord => record.state.supply >= 0
    /\ (ProposesStateChange /\ proposed.state.supply < 0) => ~Accepted

\* A burn of every token in circulation that claimed a supply below zero was
\* rejected.
C29_Witness ==
    /\ ProposesStateChange
    /\ minted_n < 0
    /\ prior_state.supply + minted_n = 0
    /\ proposed.state.supply < 0
    /\ last.verdict = "current token supply not updated correctly"
    /\ record.state.supply = prior_state.supply

\* The errors of the checks made only of a mint.
QuorumError == "not signed by simple quorum of oracles"

PriceBoundError == "too many tokens minted"

TrackingErrors ==
    {"transfer_id_before_last_mint not updated correctly",
     "supply_after_last_mint not updated correctly"}

\* A proposed mint that passed every check made of each state change.
AtMintChecks ==
    /\ ProposesMint
    /\ last.verdict \in {"ok", QuorumError, PriceBoundError} \cup TrackingErrors

LacksQuorum ==
    CASE IsWrapped -> ~wrapped_asset_signed_by_quorum(last.tx)
      [] IsAggregate -> ~account_aggregate_signed_by_quorum(last.tx)
      [] OTHER -> ~one_to_one_asset_signed_by_quorum(last.tx)

\* The new supply is over the variant's bound: N1 * price <= R in
\* account_aggregate, N1 <= R in the two other variants.
ExceedsBound ==
    IF IsAggregate
    THEN proposed_N1 * mint_price > last.tx.redeemer.R
    ELSE proposed_N1 > last.tx.redeemer.R

MistracksMint ==
    /\ IsAggregate
    /\ \/ proposed.state.transfer_id_before_last_mint # last.tx.redeemer.latest_transfer_id
       \/ proposed.state.supply_after_last_mint # proposed_N1

\* C30 as stated: a mint is asked for its quorum first, then for its price
\* bound, then for its tracking fields; a mint that lacks the quorum and is
\* over the bound is rejected with the quorum error.
C30_QuorumBeforeBound ==
    AtMintChecks =>
        /\ LacksQuorum => last.verdict = QuorumError
        /\ (~LacksQuorum /\ ExceedsBound) => last.verdict = PriceBoundError
        /\ (~LacksQuorum /\ ~ExceedsBound /\ MistracksMint) =>
                last.verdict \in TrackingErrors

\* C30 as amended: a mint is asked for its bound first, then for its tracking
\* fields (the transfer id before the snapshot of the supply), then for its
\* quorum; a mint that lacks the quorum and is over the bound is rejected
\* with the error of the bound.
C30_BoundBeforeQuorum ==
    AtMintChecks =>
        /\ ExceedsBound => last.verdict = PriceBoundError
        /\ (~ExceedsBound /\ MistracksMint) =>
                /\ last.verdict \in TrackingErrors
                /\ last.verdict = "supply_after_last_mint not updated correctly" =>
                        proposed.state.transfer_id_before_last_mint
                            = last.tx.redeemer.latest_transfer_id
        /\ (~ExceedsBound /\ ~MistracksMint /\ LacksQuorum) =>
                last.verdict = QuorumError
        /\ (~ExceedsBound /\ ~MistracksMint /\ ~LacksQuorum) => last.verdict = "ok"

\* A mint of account_aggregate without a signer, over the bound and with
\* tracking fields not updated, was rejected for the bound.
C30_Witness ==
    /\ AtMintChecks
    /\ IsAggregate
    /\ LacksQuorum
    /\ ExceedsBound
    /\ MistracksMint
    /\ last.verdict = PriceBoundError

\* The second of two transactions built on the same reference-token UTXO.
IsRival == last # NoTx /\ last.kind \in {"RivalOfApplied", "RivalOfRejected"}

\* The record the last transaction was built on.
built_on_record == (CHOOSE input \in last.tx.inputs : input.ref > 0).datum

C32_SupplyWithinSnapshot ==
    IsAggregate =>
        /\ record # NoRecord =>
                record.state.supply <= record.state.supply_after_last_mint
        /\ (AcceptedStateChange /\ minted_n > 0) =>
                record.state.supply = record.state.supply_after_last_mint
        /\ (AcceptedStateChange /\ minted_n < 0) =>
                /\ record.state.supply < prior_state.supply
                /\ record.state.supply_after_last_mint = prior_state.supply_after_last_mint

\* A burn accepted after a mint: the supply is below the snapshot.
C32_Witness ==
    /\ IsAggregate
    /\ AcceptedStateChange
    /\ minted_n < 0
    /\ prior_state.supply = prior_state.supply_after_last_mint
    /\ record.state.supply < record.state.supply_after_last_mint

\* The transfers of a list, and the places where `after` stands in the list
\* that was filtered.
Range(list) == {list[i] : i \in 1..Len(list)}

Occurrences == {i \in 1..Len(last.transfers) : last.transfers[i] = last.after}

SuffixFrom(list, i) == SubSeq(list, i, Len(list))

AuthorizingSets ==
    {signers \in SUBSET Keys :
        LET tx == Tx({}, <<>>, 0, 0, signers, AmpleRedeemer) IN
        CASE IsWrapped -> wrapped_asset_signed_by_quorum(tx)
          [] IsAggregate -> account_aggregate_signed_by_quorum(tx)
          [] OTHER -> one_to_one_asset_signed_by_quorum(tx)}

\* C34: in every variant no mint is accepted with the signatures of half the
\* configured keys or fewer; the signers of an accepted mint share a key with
\* every set of signers that authorizes a mint, and with no key configured no
\* mint is accepted.
C34_StrictMajority ==
    /\ (ProposesMint /\ Accepted) => 2 * signer_count > Len(ORACLE_KEYS)
    /\ (ProposesMint /\ Accepted) =>
            \A S \in AuthorizingSets : last.tx.signers \cap S # {}
    /\ (ProposesMint /\ ORACLE_KEYS = <<>>) => ~Accepted

\* What holds: the same of the two variants that ask for more than half of
\* the keys, and of wrapped_asset with an odd number of keys.
C34_StrictMajorityBesidesEvenWrapped ==
    (~IsWrapped \/ Len(ORACLE_KEYS) % 2 = 1) =>
        /\ (ProposesMint /\ Accepted) => 2 * signer_count > Len(ORACLE_KEYS)
        /\ (ProposesMint /\ Accepted) =>
                \A S \in AuthorizingSets : last.tx.signers \cap S # {}
        /\ (ProposesMint /\ ORACLE_KEYS = <<>>) => ~Accepted

\* An accepted mint of account_aggregate with reserves and a change of the
\* reserves that are not negative.
AcceptedAggregateMint ==
    /\ IsAggregate
    /\ ProposesMint
    /\ Accepted
    /\ last.tx.redeemer.R >= 0
    /\ last.tx.redeemer.Delta >= 0

\* C35: the price of every such mint is strictly positive, so that the new
\* supply is bounded by R / p; no R and Delta (Delta >= R, or a price that
\* rounds to zero) let a mint signed by a quorum pass with any new supply.
C35_PricePositive ==
    AcceptedAggregateMint => mint_price > 0

\* What holds: the price is positive when the reserves cover one millionth
\* for each token of both snapshots, R - Delta >= Nlast and R >= N0, and it is
\* zero or less when they do not.
C35_PricePositiveWhenCovered ==
    (AcceptedAggregateMint /\ prior_state.supply > 0) =>
        (mint_price > 0 <=>
            /\ last.tx.redeemer.R - last.tx.redeemer.Delta
                    >= prior_state.supply_after_last_mint
            /\ last.tx.redeemer.R >= prior_state.supply)

\* A mint checked against the price bound from a record that accepted
\* transactions lead to (0 < N0 <= Nlast) and with reserves R > 0.
BoundOfMint ==
    /\ last.kind = "Bound"
    /\ last.current_supply > 0
    /\ last.supply_after_last_mint >= last.current_supply
    /\ last.R > 0

priceNow == RealDivInt(last.R, last.current_supply)

priceAtLastMint == RealDivInt(last.R - last.Delta, last.supply_after_last_mint)

\* C36: when priceNow is the selected price (priceNow <= priceAtLastMint) no
\* mint passes the bound, since N1 * (R / N0) <= R asks for N1 <= N0; a mint
\* passes only where priceAtLastMint < priceNow and
\* N1 * (R - Delta) / Nlast <= R.
C36_NoMintAtPriceNow ==
    BoundOfMint =>
        /\ priceNow <= priceAtLastMint => ~last.within
        /\ last.within =>
                /\ priceAtLastMint < priceNow
                /\ last.N1 * priceAtLastMint <= last.R

\* What holds: the same when R / N0 is exact, that is when R is a whole
\* number of millionths for each token of the current supply.
C36_NoMintAtExactPriceNow ==
    (BoundOfMint /\ priceNow * last.current_supply = last.R) =>
        /\ priceNow <= priceAtLastMint => ~last.within
        /\ last.within =>
                /\ priceAtLastMint < priceNow
                /\ last.N1 * priceAtLastMint <= last.R

\* The spent outputs of the own address whose first token name of the own
\* policy is not the reference token name.
MisnamedInputs ==
    {input \in last.tx.inputs :
        /\ input.address = own_address
        /\ OwnTokens(input) # <<>>
        /\ Head(OwnTokens(input)) # ref_token_name}

\* C37: in every variant a transaction that spends an output of the own
\* address whose first token name of the own policy is not the reference
\* token name is rejected; such an output is never spent.
C37_MisnamedNeverSpent ==
    (Submitted /\ MisnamedInputs # {}) => ~Accepted

\* The output holding the user token alone was spent beside a state change
\* that burned the token and was signed by every oracle: rejected.
C37_Witness ==
    /\ Submitted
    /\ last.kind = "SpendUser"
    /\ UserInput \in MisnamedInputs
    /\ \E input \in last.tx.inputs : input.ref > 0
    /\ minted_n < 0
    /\ last.tx.signers = Keys
    /\ last.verdict = "unexpected token name"

\* A run of retryExpBackoff, and how its promise settled.
Retrying == last.kind = "retryExpBackoff"

Resolved == Retrying /\ last.settled[1] = "resolved"

Rejected == Retrying /\ last.settled[1] = "rejected"

\* The most invocations config.maxRetries allows: none when it is 0 or less.
AttemptsAllowed == IF last.maxRetries > 0 THEN last.maxRetries ELSE 0

\* The callback is invoked at most config.maxRetries times and not again
\* after it succeeded, and no timer is set after the final failed attempt.
RetryBounded ==
    Retrying =>
        /\ last.calls <= AttemptsAllowed
        /\ Resolved =>
                /\ last.pc = "returned"
                /\ last.calls = Len(last.thrown) + 1
                /\ last.waits = Len(last.thrown)
        /\ last.waits <= Len(last.thrown)
        /\ last.pc = "await timeout" => last.attempt <= last.maxRetries
        /\ (Rejected /\ last.calls > 0) => last.waits = last.calls - 1
        /\ (Rejected /\ last.calls = 0) => last.waits = 0

\* C38: retryExpBackoff invokes the callback at most config.maxRetries
\* times, never again after its first success, never waits after the final
\* failed attempt, and always settles when every invocation of the callback
\* settles.
C38_BoundedAndSettles ==
    /\ []RetryBounded
    /\ <>(Resolved \/ Rejected)

\* Every attempt allowed failed: one wait between two attempts, none after
\* the last, and the promise rejected.
C38_Witness ==
    /\ Rejected
    /\ last.maxRetries > 1
    /\ last.calls = last.maxRetries
    /\ Len(last.thrown) = last.calls
    /\ last.waits = last.calls - 1

\* C39: retryExpBackoff resolves with the value of the first successful
\* attempt; it rejects exactly when all config.maxRetries attempts failed,
\* and then with the error the last attempt threw, for every maxRetries,
\* those of 0 or less included.
C39_RejectsWithLastError ==
    Retrying =>
        /\ Resolved =>
                /\ last.settled[2] \in CallbackValues
                /\ last.calls = Len(last.thrown) + 1
        /\ Rejected <=>
                /\ last.pc \in {"returned", "thrown"}
                /\ Len(last.thrown) = last.calls
                /\ last.calls = AttemptsAllowed
        /\ Rejected =>
                /\ last.thrown # <<>>
                /\ last.settled[2] = last.thrown[Len(last.thrown)]

\* What holds: the same when config.maxRetries is 1 or more; when it is 0 or
\* less the callback is not invoked and the promise rejects with undefined.
C39_RejectsWithLastErrorOrUndefined ==
    Retrying =>
        /\ Resolved =>
                /\ last.settled[2] \in CallbackValues
                /\ last.calls = Len(last.thrown) + 1
        /\ Rejected <=>
                /\ last.pc \in {"returned", "thrown"}
                /\ Len(last.thrown) = last.calls
                /\ last.calls = AttemptsAllowed
        /\ (Rejected /\ last.maxRetries > 0) =>
                /\ last.thrown # <<>>
                /\ last.settled[2] = last.thrown[Len(last.thrown)]
        /\ (Rejected /\ last.maxRetries <= 0) =>
                /\ last.calls = 0
                /\ last.settled[2] = "undefined"

============================================================================
